---- MODULE Spec2Model ----
(***************************************************************************)
(* update_yasb_palette.py: derive an accent colour from the wallpaper      *)
(* palette and write it into YASB's styles.css and config.yaml.            *)
(*                                                                         *)
(* Text (hex colours, file contents) is a sequence of one-character        *)
(* strings, so that lstrip, len, int(..., 16), str.lower, the f-string     *)
(* formatting and the regular expressions are modelled character by        *)
(* character.  Luminance is kept exact as an integer: the float            *)
(*   0.2126*r/255 + 0.7152*g/255 + 0.0722*b/255                            *)
(* is represented by 2126*r + 7152*g + 722*b, in units of 1/(10000*255).   *)
(***************************************************************************)
EXTENDS Integers, Sequences, FiniteSets, TLC

VARIABLES
    pc,              \* control point of the run
    exit_code,       \* -1 while running, then main's return value
    error,           \* message of the PaletteError raised ("" when none)
    present,         \* which of styles.css / config.yaml exist (ensure_paths)
    wallpaper,       \* what the Windows API reports for the wallpaper
    runner_found,    \* _wal_runner can locate wal or a Python launcher
    pywal_installed, \* _wal_cache_dir can import pywal
    colors_json,     \* the artifact <cache_dir>/colors.json
    backend_idx,     \* position in ("colorthief", "wal", "haishoku")
    errors,          \* generate_palette's list of failure messages
    invoked,         \* history: the backends invoked so far, in order
    palette,         \* what generate_palette returned
    env_slot,        \* os.environ.get("YASB_ACCENT_SLOT"), "" when unset
    colors,          \* palette["colors"]: slot name -> hex colour
    special,         \* palette["special"]: "background"/"foreground" -> hex
    background_rgb,  \* hex_to_rgb(special["background"])
    accent_hex,      \* what choose_accent returned
    css_file,        \* contents of styles.css
    config_file,     \* contents of config.yaml
    css_start,       \* history: styles.css when the run began
    config_start,    \* history: config.yaml when the run began
    css_first,       \* history: styles.css right after the first successful update_css
    css_calls,       \* history: outcomes of the update_css calls so far
    config_calls     \* history: outcomes of the update_config calls so far

vars == <<pc, exit_code, error, present, wallpaper, runner_found, pywal_installed,
          colors_json, backend_idx, errors, invoked, palette, env_slot, colors,
          special, background_rgb, accent_hex, css_file, config_file, css_start,
          config_start, css_first, css_calls, config_calls>>

----------------------------------------------------------------------------
(* Bounds of the model *)

\* at most this many slots are present in palette["colors"]
MaxSlots == 2

\* a stylesheet is built from at most this many declarations
MaxDecls == 4

\* a widget config is built from at most this many lines
MaxLines == 3

\* update_css and update_config are each applied at most this many times in a row
MaxCalls == 2

----------------------------------------------------------------------------
(* Module constants of update_yasb_palette.py *)

\* the first two slots in the wrong order
ACCENT_PRIORITY_swapped == <<"color5", "color4", "color2", "color6", "color3", "color1", "color7">>

ACCENT_PRIORITY == <<"color4", "color5", "color2", "color6", "color3", "color1", "color7">>

\* 0.45, 0.25 and 0.25, in hundredths
LUMINANCE_TARGET == 45
LUMINANCE_TOLERANCE == 25
MIN_CONTRAST == 25

\* the weights of relative_luminance, in ten-thousandths
WeightR == 2126
WeightG == 7152
WeightB == 722

\* one unit of luminance (1.0) in the integer representation
LumOne == 10000 * 255

----------------------------------------------------------------------------
(* Characters *)

HexChars == <<"0", "1", "2", "3", "4", "5", "6", "7", "8", "9", "a", "b", "c", "d", "e", "f">>
UpperHex == <<"0", "1", "2", "3", "4", "5", "6", "7", "8", "9", "A", "B", "C", "D", "E", "F">>

Min(S) == CHOOSE x \in S : \A y \in S : x <= y
Max(a, b) == IF a >= b THEN a ELSE b
Abs(x) == IF x < 0 THEN -x ELSE x

IndexOf(seq, c) == CHOOSE i \in 1..Len(seq) : seq[i] = c

IsHexChar(c) == \E i \in 1..16 : HexChars[i] = c \/ UpperHex[i] = c
IsDigitChar(c) == \E i \in 1..10 : HexChars[i] = c
IsSpaceChar(c) == c \in {" ", "\n"}

\* str.lower on one character (only A-F occur in upper case in the model)
LowerChar(c) == IF \E i \in 11..16 : UpperHex[i] = c THEN HexChars[IndexOf(UpperHex, c)] ELSE c
Lower(s) == [i \in 1..Len(s) |-> LowerChar(s[i])]

\* int(c, 16) for one hex digit
HexVal(c) == IndexOf(HexChars, LowerChar(c)) - 1

\* str(n) for n >= 0, as the f-strings of update_css format the channels
RECURSIVE FormatInt(_)
FormatInt(n) == IF n < 10 THEN <<HexChars[n + 1]>>
                ELSE FormatInt(n \div 10) \o <<HexChars[(n % 10) + 1]>>

\* s.lstrip("#")
RECURSIVE LStripHash(_)
LStripHash(s) == IF s # <<>> /\ Head(s) = "#" THEN LStripHash(Tail(s)) ELSE s

----------------------------------------------------------------------------
(* hex_to_rgb, relative_luminance *)

\* None / the empty string: both are falsy in the code's "if candidate:" tests
None == <<>>

NoRgb == <<>>

\* [raised |-> TRUE] stands for "raise PaletteError(Unexpected color format)"
hex_to_rgb(hex_color) ==
    LET cleaned == LStripHash(hex_color) IN
    IF Len(cleaned) # 6
    THEN [raised |-> TRUE, rgb |-> NoRgb]
    ELSE [raised |-> FALSE,
          rgb |-> <<16 * HexVal(cleaned[1]) + HexVal(cleaned[2]),
                    16 * HexVal(cleaned[3]) + HexVal(cleaned[4]),
                    16 * HexVal(cleaned[5]) + HexVal(cleaned[6])>>]

relative_luminance(rgb) == WeightR * rgb[1] + WeightG * rgb[2] + WeightB * rgb[3]

----------------------------------------------------------------------------
(* choose_accent *)

\* dict.get(key), with None for an absent key
Get(d, key) == IF key \in DOMAIN d THEN d[key] ELSE None

\* the generator candidate_colors()
candidate_colors(cols, spec) ==
    LET picked == [i \in 1..Len(ACCENT_PRIORITY) |-> Get(cols, ACCENT_PRIORITY[i])]
        foreground == Get(spec, "foreground")
    IN  SelectSeq(picked, LAMBDA h : h # None)
        \o (IF foreground # None THEN <<foreground>> ELSE <<>>)

\* the list of (hex_color, lum, contrast) triples
Ranked(cands, bg_rgb) ==
    LET background_lum == relative_luminance(bg_rgb) IN
    [i \in 1..Len(cands) |->
        LET lum == relative_luminance(hex_to_rgb(cands[i]).rgb) IN
        [hex_color |-> cands[i], lum |-> lum, contrast |-> Abs(lum - background_lum)]]

\* target_low <= lum <= target_high and contrast >= MIN_CONTRAST
target_low == Max(0, LUMINANCE_TARGET - LUMINANCE_TOLERANCE)
target_high == IF LUMINANCE_TARGET + LUMINANCE_TOLERANCE <= 100
               THEN LUMINANCE_TARGET + LUMINANCE_TOLERANCE ELSE 100

Passes(item) ==
    /\ target_low * LumOne <= 100 * item.lum
    /\ 100 * item.lum <= target_high * LumOne
    /\ 100 * item.contrast >= MIN_CONTRAST * LumOne

\* the key of the fallback min(): abs(lum - LUMINANCE_TARGET), times 100 * LumOne
Closeness(item) == Abs(100 * item.lum - LUMINANCE_TARGET * LumOne)

\* a minimum search that keeps the last of several equally close items
RECURSIVE MinByKey_last(_, _, _)
MinByKey_last(ranked, i, best) ==
    IF i > Len(ranked) THEN best
    ELSE MinByKey_last(ranked, i + 1,
                       IF Closeness(ranked[i]) <= Closeness(ranked[best]) THEN i ELSE best)

\* min(ranked, key=...): the first item whose key is the smallest
RECURSIVE MinByKey(_, _, _)
MinByKey(ranked, i, best) ==
    IF i > Len(ranked) THEN best
    ELSE MinByKey(ranked, i + 1,
                  IF Closeness(ranked[i]) < Closeness(ranked[best]) THEN i ELSE best)

\* an override that is honoured only for the slots of ACCENT_PRIORITY
Override_priority_only(cols, slot) ==
    IF slot # "" /\ \E i \in 1..Len(ACCENT_PRIORITY) : ACCENT_PRIORITY[i] = slot
    THEN Get(cols, slot) ELSE None

\* the override branch of choose_accent: colors.get(env_slot) when both are truthy
Override(cols, slot) == IF slot # "" THEN Get(cols, slot) ELSE None

\* a selection without the closest-to-target fallback
Select_no_fallback(cands, bg_rgb) ==
    LET ranked == Ranked(cands, bg_rgb)
        passing == {i \in 1..Len(ranked) : Passes(ranked[i])}
    IN  IF passing # {} THEN ranked[Min(passing)].hex_color ELSE None

\* the selection over the ranked candidates (lines 264-287)
Select(cands, bg_rgb) ==
    LET ranked == Ranked(cands, bg_rgb)
        passing == {i \in 1..Len(ranked) : Passes(ranked[i])}
    IN  IF passing # {} THEN ranked[Min(passing)].hex_color
        ELSE ranked[MinByKey(ranked, 2, 1)].hex_color

choose_accent(cols, spec, bg_rgb, slot) ==
    LET cands == candidate_colors(cols, spec) IN
    IF Override(cols, slot) # None
    THEN [raised |-> "", value |-> Override(cols, slot)]
    ELSE IF \E i \in 1..Len(cands) : hex_to_rgb(cands[i]).raised
    THEN [raised |-> "Unexpected color format", value |-> None]
    ELSE IF cands = <<>>
    THEN [raised |-> "Palette did not contain any usable accent colors.", value |-> None]
    ELSE [raised |-> "", value |-> Select(cands, bg_rgb)]

----------------------------------------------------------------------------
(* Regular expressions of update_css and update_config *)

StartsWithAt(s, i, lit) ==
    /\ i + Len(lit) - 1 <= Len(s)
    /\ \A k \in 1..Len(lit) : s[i + k - 1] = lit[k]

\* the first index >= i whose character is not in the class (Len(s) + 1 if none)
IsRgbListChar(c) == IsDigitChar(c) \/ IsSpaceChar(c) \/ c = ","
IsNotSemicolon(c) == c # ";"

\* the character classes \s, [0-9\s,] and [^;]
InClass(class, c) ==
    CASE class = "\\s" -> IsSpaceChar(c)
      [] class = "[0-9\\s,]" -> IsRgbListChar(c)
      [] class = "[^;]" -> IsNotSemicolon(c)

SkipWhile(s, i, class) ==
    Min({j \in i..(Len(s) + 1) : j = Len(s) + 1 \/ ~InClass(class, s[j])})

\* Each matcher gives the index just past the match that starts at i, 0 if the
\* pattern does not match there.

\* --accent:\s*#[0-9a-fA-F]{6};
AccentMatchEnd(s, i) ==
    LET b == SkipWhile(s, i + 9, "\\s") IN
    IF /\ StartsWithAt(s, i, <<"-", "-", "a", "c", "c", "e", "n", "t", ":">>)
       /\ b + 7 <= Len(s)
       /\ s[b] = "#"
       /\ \A k \in 1..6 : IsHexChar(s[b + k])
       /\ s[b + 7] = ";"
    THEN b + 8 ELSE 0

\* --accent-rgb:\s*[0-9\s,]+;
AccentRgbMatchEnd(s, i) ==
    LET e == SkipWhile(s, i + 13, "[0-9\\s,]") IN
    IF /\ StartsWithAt(s, i, <<"-", "-", "a", "c", "c", "e", "n", "t", "-", "r", "g", "b", ":">>)
       /\ e > i + 13
       /\ e <= Len(s)
       /\ s[e] = ";"
    THEN e + 1 ELSE 0

\* --yasb-background:\s*rgba\([^;]+;
BackgroundMatchEnd(s, i) ==
    LET b == SkipWhile(s, i + 18, "\\s")
        e == SkipWhile(s, b + 5, "[^;]")
    IN  IF /\ StartsWithAt(s, i, <<"-", "-", "y", "a", "s", "b", "-", "b", "a", "c", "k", "g", "r", "o", "u", "n", "d", ":">>)
           /\ StartsWithAt(s, b, <<"r", "g", "b", "a", "(">>)
           /\ e > b + 5
           /\ e <= Len(s)
        THEN e + 1 ELSE 0

\* 'color': '#[0-9a-fA-F]{6}'
ColorEntryMatchEnd(s, i) ==
    IF /\ StartsWithAt(s, i, <<"'", "c", "o", "l", "o", "r", "'", ":", " ", "'", "#">>)
       /\ i + 17 <= Len(s)
       /\ \A k \in 11..16 : IsHexChar(s[i + k])
       /\ s[i + 17] = "'"
    THEN i + 18 ELSE 0

\* the four patterns, by the name of what they look for
MatchEnd(pattern, s, i) ==
    CASE pattern = "--accent" -> AccentMatchEnd(s, i)
      [] pattern = "--accent-rgb" -> AccentRgbMatchEnd(s, i)
      [] pattern = "--yasb-background" -> BackgroundMatchEnd(s, i)
      [] pattern = "'color'" -> ColorEntryMatchEnd(s, i)

\* re.subn(pattern, replacement, s, count=1): <<new string, count>>
SubnFirst(pattern, replacement, s) ==
    LET starts == {i \in 1..Len(s) : MatchEnd(pattern, s, i) # 0} IN
    IF starts = {} THEN <<s, 0>>
    ELSE LET i == Min(starts) IN
         <<SubSeq(s, 1, i - 1) \o replacement \o SubSeq(s, MatchEnd(pattern, s, i), Len(s)), 1>>

\* re.subn(pattern, replacement, s): every non-overlapping match, left to
\* right; the scan resumes at index i, right after the previous match
RECURSIVE SubnAll(_, _, _, _)
SubnAll(pattern, replacement, s, i) ==
    LET starts == {j \in i..Len(s) : MatchEnd(pattern, s, j) # 0} IN
    IF starts = {} THEN <<SubSeq(s, i, Len(s)), 0>>
    ELSE LET j == Min(starts)
             rest == SubnAll(pattern, replacement, s, MatchEnd(pattern, s, j))
         IN  <<SubSeq(s, i, j - 1) \o replacement \o rest[1], rest[2] + 1>>

----------------------------------------------------------------------------
(* update_css, update_config: the text to write, or the PaletteError raised *)

RgbList(rgb) == FormatInt(rgb[1]) \o <<",", " ">> \o FormatInt(rgb[2]) \o <<",", " ">> \o FormatInt(rgb[3])

AccentReplacement(hex) == <<"-", "-", "a", "c", "c", "e", "n", "t", ":", " ">> \o hex \o <<";">>
AccentRgbReplacement(rgb) == <<"-", "-", "a", "c", "c", "e", "n", "t", "-", "r", "g", "b", ":", " ">> \o RgbList(rgb) \o <<";">>
BackgroundReplacement(rgb) == <<"-", "-", "y", "a", "s", "b", "-", "b", "a", "c", "k", "g", "r", "o", "u", "n", "d", ":", " ", "r", "g", "b", "a", "(">> \o RgbList(rgb) \o <<",", " ", "0", ".", "7", "2", ")", ";">>

\* a variant that hands back (for writing) whatever was substituted before the failure
update_css_keeps_progress(css, hex, bg_rgb) ==
    LET accent_rgb == hex_to_rgb(hex)
        s1 == SubnFirst("--accent", <<"-", "-", "a", "c", "c", "e", "n", "t", ":", " ">> \o hex \o <<";">>, css)
        s2 == SubnFirst("--accent-rgb", <<"-", "-", "a", "c", "c", "e", "n", "t", "-", "r", "g", "b", ":", " ", "0", ",", " ", "0", ",", " ", "0", ";">>, s1[1])
        s3 == SubnFirst("--yasb-background", <<"-", "-", "y", "a", "s", "b", "-", "b", "a", "c", "k", "g", "r", "o", "u", "n", "d", ":", " ", "r", "g", "b", "a", "(", "0", ",", " ", "0", ",", " ", "0", ",", " ", "0", ".", "7", "2", ")", ";">>, s2[1])
    IN  IF accent_rgb.raised THEN [raised |-> "Unexpected color format", text |-> css]
        ELSE IF s1[2] # 1 THEN [raised |-> "Failed to apply CSS replacement: --accent", text |-> css]
        ELSE IF s2[2] # 1 THEN [raised |-> "Failed to apply CSS replacement: --accent-rgb", text |-> s1[1]]
        ELSE IF s3[2] # 1 THEN [raised |-> "Failed to apply CSS replacement: --yasb-background", text |-> s2[1]]
        ELSE [raised |-> "", text |-> s3[1]]

update_css(css, hex, bg_rgb) ==
    LET accent_rgb == hex_to_rgb(hex)
        s1 == SubnFirst("--accent", AccentReplacement(hex), css)
        s2 == SubnFirst("--accent-rgb", AccentRgbReplacement(accent_rgb.rgb), s1[1])
        s3 == SubnFirst("--yasb-background", BackgroundReplacement(bg_rgb), s2[1])
    IN  IF accent_rgb.raised THEN [raised |-> "Unexpected color format", text |-> css]
        ELSE IF s1[2] # 1 THEN [raised |-> "Failed to apply CSS replacement: --accent", text |-> css]
        ELSE IF s2[2] # 1 THEN [raised |-> "Failed to apply CSS replacement: --accent-rgb", text |-> css]
        ELSE IF s3[2] # 1 THEN [raised |-> "Failed to apply CSS replacement: --yasb-background", text |-> css]
        ELSE [raised |-> "", text |-> s3[1]]

\* a substitution that stops after the first entry (count=1)
update_config_first_only(yaml_text, hex) ==
    LET r == SubnFirst("'color'", <<"'", "c", "o", "l", "o", "r", "'", ":", " ", "'">> \o hex \o <<"'">>, yaml_text) IN
    IF r[2] = 0 THEN [raised |-> "No color entries updated in config.yaml", text |-> yaml_text]
    ELSE [raised |-> "", text |-> r[1]]

ColorEntryReplacement(hex) == <<"'", "c", "o", "l", "o", "r", "'", ":", " ", "'">> \o hex \o <<"'">>

update_config(yaml_text, hex) ==
    LET r == SubnAll("'color'", ColorEntryReplacement(hex), yaml_text, 1) IN
    IF r[2] = 0 THEN [raised |-> "No color entries updated in config.yaml", text |-> yaml_text]
    ELSE [raised |-> "", text |-> r[1]]

----------------------------------------------------------------------------
(* Shared pieces of the state machine *)

NoError == [msg |-> "", raised_in |-> "", parts |-> <<>>]
PaletteError(msg, where) == [msg |-> msg, raised_in |-> where, parts |-> <<>>]

\* main's "except PaletteError": print the message, return 1
Fail(err) ==
    /\ pc' = "done"
    /\ exit_code' = 1
    /\ error' = err

RunVars == <<pc, exit_code, error>>
EnvVars == <<present, wallpaper, runner_found, pywal_installed, env_slot>>
WalVars == <<colors_json, backend_idx, errors, invoked, palette>>
PaletteVars == <<colors, special, background_rgb>>
CssVars == <<css_file, css_first, css_calls>>
ConfigVars == <<config_file, config_calls>>
StartVars == <<css_start, config_start>>

EmptyDict == [k \in {} |-> None]
NoFile == [exists |-> FALSE, writer |-> "", content |-> "", data |-> EmptyDict]

\* CSS_PATH.read_text / update_css / CSS_PATH.write_text, with the call recorded
ApplyCss(hex) ==
    LET r == update_css(css_file, hex, background_rgb) IN
    /\ css_file' = r.text
    /\ css_calls' = Append(css_calls, r.raised)
    /\ css_first' = IF r.raised = "" /\ \A i \in 1..Len(css_calls) : css_calls[i] # ""
                    THEN r.text ELSE css_first

\* CONFIG_PATH.read_text / update_config / CONFIG_PATH.write_text, with the call recorded
ApplyConfig(hex) ==
    LET r == update_config(config_file, hex) IN
    /\ config_file' = r.text
    /\ config_calls' = Append(config_calls, r.raised)

----------------------------------------------------------------------------
(* The accent selector on its own: choose_accent over bounded palettes *)

Slots == {"color0", "color1", "color2", "color3", "color4", "color5", "color6", "color7"}

Dark == <<"#", "1", "0", "1", "0", "1", "0">>
Blue == <<"#", "3", "a", "6", "e", "a", "5">>
BlueUpper == <<"#", "3", "A", "6", "E", "A", "5">>
Light == <<"#", "e", "e", "e", "e", "e", "e">>
Grey == <<"#", "3", "8", "3", "8", "3", "8">>
Colours == {Dark, Blue, BlueUpper, Light, Grey}

Backgrounds == {<<"#", "1", "2", "1", "2", "1", "2">>, <<"#", "8", "0", "8", "0", "8", "0">>}
Foregrounds == {Light, Blue}

SlotSets == {S \in SUBSET Slots : Cardinality(S) <= MaxSlots}
ColorDicts == UNION {[S -> Colours] : S \in SlotSets}
SpecialDicts ==
    {[k \in {"background"} |-> b] : b \in Backgrounds}
    \cup {[k \in {"background", "foreground"} |-> IF k = "background" THEN b ELSE f] :
            b \in Backgrounds, f \in Foregrounds}

\* "" is an unset variable; color0 is a slot outside ACCENT_PRIORITY
EnvSlots == {"", "color4", "color0"}

Idle ==
    /\ exit_code = -1
    /\ error = NoError
    /\ present = {"styles.css", "config.yaml"}
    /\ wallpaper = "ok"
    /\ runner_found = TRUE
    /\ pywal_installed = TRUE
    /\ colors_json = NoFile
    /\ backend_idx = 1
    /\ errors = <<>>
    /\ invoked = <<>>
    /\ palette = EmptyDict
    /\ css_first = <<>>
    /\ css_calls = <<>>
    /\ config_calls = <<>>
    /\ css_start = css_file
    /\ config_start = config_file

InitAccent ==
    /\ pc = "choose_accent"
    /\ env_slot \in EnvSlots
    /\ colors \in ColorDicts
    /\ special \in SpecialDicts
    /\ background_rgb = hex_to_rgb(special["background"]).rgb
    /\ accent_hex = None
    /\ css_file = <<>>
    /\ config_file = <<>>
    /\ Idle

\* accent_hex = choose_accent(colors, special, background_rgb)
ChooseAccent ==
    /\ pc = "choose_accent"
    /\ LET r == choose_accent(colors, special, background_rgb, env_slot) IN
       IF r.raised # ""
       THEN Fail(PaletteError(r.raised, "choose_accent")) /\ UNCHANGED accent_hex
       ELSE /\ accent_hex' = r.value
            /\ pc' = "update_css"
            /\ UNCHANGED <<exit_code, error>>
    /\ UNCHANGED <<EnvVars, WalVars, PaletteVars, CssVars, ConfigVars, StartVars>>

NextAccent == ChooseAccent

SpecAccent == InitAccent /\ [][NextAccent]_vars

----------------------------------------------------------------------------
(* Properties of choose_accent (checked under SpecAccent) *)

AccentChosen == pc # "choose_accent"

\* the enumeration order the claims state: seven slots, then special.foreground
StatedOrder == <<"color4", "color5", "color2", "color6", "color3", "color1", "color7">>

StatedCandidates ==
    LET present_slots == SelectSeq(StatedOrder, LAMBDA k : k \in DOMAIN colors) IN
    [i \in 1..Len(present_slots) |-> colors[present_slots[i]]]
    \o (IF "foreground" \in DOMAIN special THEN <<special["foreground"]>> ELSE <<>>)

Lum(hex) == relative_luminance(hex_to_rgb(hex).rgb)

\* luminance within [0.20, 0.70] and |luminance - background luminance| >= 0.25
InBandWithContrast(hex) ==
    /\ 20 * LumOne <= 100 * Lum(hex)
    /\ 100 * Lum(hex) <= 70 * LumOne
    /\ 100 * Abs(Lum(hex) - relative_luminance(background_rgb)) >= 25 * LumOne

\* |luminance - 0.45|
DistanceToTarget(hex) == Abs(100 * Lum(hex) - 45 * LumOne)

\* C3: an override naming a slot present in colors returns exactly that slot's
\* colour, with no luminance/contrast filtering; an override naming an absent
\* slot gives the same outcome as no override at all.
C3_OverrideWins ==
    AccentChosen =>
        /\ (env_slot \in DOMAIN colors) =>
              error = NoError /\ accent_hex = colors[env_slot]
        /\ (env_slot # "" /\ env_slot \notin DOMAIN colors) =>
              LET unset == choose_accent(colors, special, background_rgb, "") IN
              error.msg = unset.raised /\ accent_hex = unset.value

\* the override picks a colour that fails the band test although a candidate passes it
C3_Witness ==
    /\ AccentChosen
    /\ env_slot = "color0"
    /\ "color0" \in DOMAIN colors
    /\ ~InBandWithContrast(colors["color0"])
    /\ \E i \in 1..Len(StatedCandidates) : InBandWithContrast(StatedCandidates[i])
    /\ accent_hex = colors["color0"]

\* C4: with no override, the result is the first candidate, in the order color4,
\* color5, color2, color6, color3, color1, color7, special.foreground, that has
\* luminance in [0.20, 0.70] and contrast >= 0.25, even when earlier ones fail.
C4_FirstMatchWins ==
    (AccentChosen /\ env_slot = "") =>
        \A i \in 1..Len(StatedCandidates) :
            (/\ InBandWithContrast(StatedCandidates[i])
             /\ \A j \in 1..(i - 1) : ~InBandWithContrast(StatedCandidates[j]))
            => error = NoError /\ accent_hex = StatedCandidates[i]

\* an earlier candidate fails the test and a later one is returned
C4_Witness ==
    /\ AccentChosen
    /\ env_slot = ""
    /\ \E i \in 2..Len(StatedCandidates) :
          /\ InBandWithContrast(StatedCandidates[i])
          /\ \A j \in 1..(i - 1) :
                ~InBandWithContrast(StatedCandidates[j]) /\ StatedCandidates[j] # StatedCandidates[i]
          /\ accent_hex = StatedCandidates[i]

NonePasses == \A i \in 1..Len(StatedCandidates) : ~InBandWithContrast(StatedCandidates[i])

\* C5: with no override and no candidate passing the test, the result is the
\* candidate whose luminance is closest to 0.45, whatever its contrast; among
\* equally close candidates it is the first in enumeration order.
C5_FallbackClosest ==
    (AccentChosen /\ env_slot = "" /\ NonePasses /\ StatedCandidates # <<>>) =>
        /\ error = NoError
        /\ \E i \in 1..Len(StatedCandidates) :
              /\ accent_hex = StatedCandidates[i]
              /\ \A j \in 1..Len(StatedCandidates) :
                    DistanceToTarget(StatedCandidates[i]) <= DistanceToTarget(StatedCandidates[j])
              /\ \A j \in 1..(i - 1) :
                    DistanceToTarget(StatedCandidates[i]) < DistanceToTarget(StatedCandidates[j])

\* two different colour strings are equally close and the earlier one is returned
C5_Witness ==
    /\ AccentChosen
    /\ env_slot = ""
    /\ NonePasses
    /\ \E i, j \in 1..Len(StatedCandidates) :
          /\ i < j
          /\ StatedCandidates[i] # StatedCandidates[j]
          /\ DistanceToTarget(StatedCandidates[i]) = DistanceToTarget(StatedCandidates[j])
          /\ accent_hex = StatedCandidates[i]

HasCandidate ==
    \/ \E i \in 1..Len(StatedOrder) : StatedOrder[i] \in DOMAIN colors
    \/ "foreground" \in DOMAIN special

\* C6 as stated: any non-empty colors mapping yields an accent.
C6_NonEmptyColorsSucceeds ==
    (AccentChosen /\ DOMAIN colors # {}) => error = NoError /\ accent_hex # None

\* C6 amended: whenever one of the seven priority slots or special.foreground
\* is present, choose_accent returns a colour; it raises PaletteError only when
\* neither is present (and no override names a present slot), which a non-empty
\* colors mapping holding only other slots does not prevent.
C6_CandidateSucceeds ==
    AccentChosen =>
        /\ HasCandidate => error = NoError /\ accent_hex # None
        /\ error # NoError =>
              /\ ~HasCandidate
              /\ env_slot \notin DOMAIN colors
              /\ error.msg = "Palette did not contain any usable accent colors."
              /\ error.raised_in = "choose_accent"

\* no candidate passes the test, and the fallback still returns one
C6_Witness ==
    /\ AccentChosen
    /\ env_slot = ""
    /\ DOMAIN colors # {}
    /\ NonePasses
    /\ HasCandidate
    /\ error = NoError
    /\ accent_hex # None

----------------------------------------------------------------------------
(* The two writers on their own, applied repeatedly to bounded files *)

RECURSIVE Concat(_)
Concat(parts) == IF parts = <<>> THEN <<>> ELSE Head(parts) \o Concat(Tail(parts))

SeqsUpTo(S, n) == UNION {[1..k -> S] : k \in 0..n}

\* declarations a stylesheet is built from; the last one is a final
\* declaration of a block, written without its optional semicolon
CssDecls == {
    <<"-", "-", "a", "c", "c", "e", "n", "t", ":", " ", "#", "a", "a", "b", "b", "c", "c", ";">>,
    <<"-", "-", "a", "c", "c", "e", "n", "t", ":", "#", "D", "D", "E", "E", "F", "F", ";">>,
    <<"-", "-", "a", "c", "c", "e", "n", "t", "-", "r", "g", "b", ":", " ", "1", ",", " ", "2", ",", " ", "3", ";">>,
    <<"-", "-", "y", "a", "s", "b", "-", "b", "a", "c", "k", "g", "r", "o", "u", "n", "d", ":", " ", "r", "g", "b", "a", "(", "0", ",", " ", "0", ",", " ", "0", ",", " ", "0", ".", "5", ")", ";">>,
    <<"-", "-", "y", "a", "s", "b", "-", "b", "a", "c", "k", "g", "r", "o", "u", "n", "d", ":", " ", "r", "g", "b", "a", "(", "0", ",", "0", ",", "0", ",", "0", ".", "5", ")", " ", "}">> }

CssFiles == {Concat(parts) : parts \in SeqsUpTo(CssDecls, MaxDecls)}

ConfigLinesSet == {
    <<"'", "c", "o", "l", "o", "r", "'", ":", " ", "'", "#", "a", "a", "b", "b", "c", "c", "'", "\n">>,
    <<"'", "c", "o", "l", "o", "r", "'", ":", " ", "'", "#", "D", "D", "E", "E", "F", "F", "'", "\n">>,
    <<"'", "c", "o", "l", "o", "r", "'", ":", " ", "'", "r", "e", "d", "'", "\n">>,
    <<"'", "s", "i", "z", "e", "'", ":", " ", "1", "4", "\n">> }

ConfigFiles == {Concat(parts) : parts \in SeqsUpTo(ConfigLinesSet, MaxLines)}

WriterAccents == {Blue, Light}

InitCss ==
    /\ pc = "update_css"
    /\ css_file \in CssFiles
    /\ config_file = <<>>
    /\ accent_hex \in WriterAccents
    /\ background_rgb = hex_to_rgb(<<"#", "1", "2", "1", "2", "1", "2">>).rgb
    /\ env_slot = ""
    /\ colors = EmptyDict
    /\ special = EmptyDict
    /\ Idle

\* one more update_css(accent_hex, background_rgb) on the current styles.css
ReapplyCss ==
    /\ pc = "update_css"
    /\ Len(css_calls) < MaxCalls
    /\ ApplyCss(accent_hex)
    /\ UNCHANGED <<RunVars, EnvVars, WalVars, PaletteVars, accent_hex, ConfigVars, StartVars>>

NextCss == ReapplyCss

SpecCss == InitCss /\ [][NextCss]_vars

InitConfig ==
    /\ pc = "update_config"
    /\ css_file = <<>>
    /\ config_file \in ConfigFiles
    /\ accent_hex \in WriterAccents
    /\ background_rgb = hex_to_rgb(<<"#", "1", "2", "1", "2", "1", "2">>).rgb
    /\ env_slot = ""
    /\ colors = EmptyDict
    /\ special = EmptyDict
    /\ Idle

\* one more update_config(accent_hex) on the current config.yaml
ReapplyConfig ==
    /\ pc = "update_config"
    /\ Len(config_calls) < MaxCalls
    /\ ApplyConfig(accent_hex)
    /\ UNCHANGED <<RunVars, EnvVars, WalVars, PaletteVars, accent_hex, CssVars, StartVars>>

NextConfig == ReapplyConfig

SpecConfig == InitConfig /\ [][NextConfig]_vars

----------------------------------------------------------------------------
(* Properties of the writers *)

\* C7: once update_css has succeeded on a stylesheet, applying it again with
\* the same accent and background succeeds and leaves the file byte-identical
\* to the result of the first application.
C7_CssIdempotent ==
    (css_calls # <<>> /\ css_calls[1] = "") =>
        /\ \A i \in 1..Len(css_calls) : css_calls[i] = ""
        /\ css_file = css_first

\* the positions at which a quoted-hex color entry starts
ColorEntries(text) == {i \in 1..Len(text) : ColorEntryMatchEnd(text, i) # 0}

\* the colour of the entry at position i
EntryColour(text, i) == SubSeq(text, i + 10, i + 16)

\* C8: a successful update_config leaves every color entry equal to the new
\* accent and the number of entries unchanged; on a file without entries the
\* call raises PaletteError and the file keeps its contents.
C8_ConfigAllEntries ==
    config_calls # <<>> =>
        IF ColorEntries(config_start) = {}
        THEN /\ \A i \in 1..Len(config_calls) : config_calls[i] # ""
             /\ config_file = config_start
        ELSE /\ \A i \in 1..Len(config_calls) : config_calls[i] = ""
             /\ \A i \in ColorEntries(config_file) : EntryColour(config_file, i) = accent_hex
             /\ Cardinality(ColorEntries(config_file)) = Cardinality(ColorEntries(config_start))

\* a file with two entries of different colours, both now the accent
C8_Witness ==
    /\ config_calls = <<"">>
    /\ \E i, j \in ColorEntries(config_start) :
          /\ i < j
          /\ EntryColour(config_start, i) # EntryColour(config_start, j)
          /\ EntryColour(config_start, j) # accent_hex
    /\ Cardinality(ColorEntries(config_file)) >= 2
    /\ config_file # config_start

----------------------------------------------------------------------------
(* The whole run: main() *)

\* wal tried before colorthief
Backends_wal_first == <<"wal", "colorthief", "haishoku">>

\* the tuple generate_palette iterates over
Backends == <<"colorthief", "wal", "haishoku">>

Dict2(k1, v1, k2, v2) == [k \in {k1, k2} |-> IF k = k1 THEN v1 ELSE v2]
Dict1(k1, v1) == [k \in {k1} |-> v1]

\* palettes a backend may write into colors.json
FullPalette ==
    Dict2("colors", Dict2("color4", BlueUpper, "color1", Dark),
          "special", Dict2("background", <<"#", "1", "2", "1", "2", "1", "2">>, "foreground", Light))
NoBackgroundPalette ==
    Dict2("colors", Dict1("color4", Blue), "special", Dict1("foreground", Light))
EmptyColorsPalette ==
    Dict2("colors", EmptyDict, "special", Dict2("background", <<"#", "1", "2", "1", "2", "1", "2">>, "foreground", Light))
\* what a prior run left behind
PriorPalette ==
    Dict2("colors", Dict1("color4", Grey),
          "special", Dict2("background", <<"#", "8", "0", "8", "0", "8", "0">>, "foreground", Light))

Artifact(writer, content, data) ==
    [exists |-> TRUE, writer |-> writer, content |-> content, data |-> data]

\* what a backend that exits 0 may leave in colors.json: a JSON object, an
\* object with a trailing comma, text that is no JSON, a JSON list
WrittenOnSuccess(backend) ==
    {Artifact(backend, "json", p) : p \in {FullPalette, NoBackgroundPalette, EmptyColorsPalette, EmptyDict}}
    \cup {Artifact(backend, "trailing_comma", FullPalette),
          Artifact(backend, "garbage", EmptyDict),
          Artifact(backend, "list", EmptyDict)}

\* what a backend that exits non-zero may leave there
WrittenOnFailure(backend) == {Artifact(backend, "json", FullPalette)}

\* _load_palette_json: json.loads, one retry after the textual repairs, and the
\* isinstance(palette, dict) test
_load_palette_json(file) ==
    IF ~file.exists THEN [raised |-> "pywal did not produce colors.json", data |-> EmptyDict]
    ELSE IF file.content = "garbage"
    THEN [raised |-> "pywal produced an invalid colors.json file.", data |-> EmptyDict]
    ELSE IF file.content = "list"
    THEN [raised |-> "pywal returned an unexpected palette format.", data |-> EmptyDict]
    ELSE [raised |-> "", data |-> file.data]

\* stylesheets of a run: complete, and with one of the three declarations missing
MainCssFiles == {
    <<":", "r", "o", "o", "t", " ", "{", " ", "-", "-", "a", "c", "c", "e", "n", "t", ":", " ", "#", "a", "a", "b", "b", "c", "c", ";", " ", "-", "-", "a", "c", "c", "e", "n", "t", "-", "r", "g", "b", ":", " ", "1", ",", " ", "2", ",", " ", "3", ";", " ", "-", "-", "y", "a", "s", "b", "-", "b", "a", "c", "k", "g", "r", "o", "u", "n", "d", ":", " ", "r", "g", "b", "a", "(", "0", ",", " ", "0", ",", " ", "0", ",", " ", "0", ".", "5", ")", ";", " ", "}">>,
    <<":", "r", "o", "o", "t", " ", "{", " ", "-", "-", "a", "c", "c", "e", "n", "t", "-", "r", "g", "b", ":", " ", "1", ",", " ", "2", ",", " ", "3", ";", " ", "-", "-", "y", "a", "s", "b", "-", "b", "a", "c", "k", "g", "r", "o", "u", "n", "d", ":", " ", "r", "g", "b", "a", "(", "0", ",", " ", "0", ",", " ", "0", ",", " ", "0", ".", "5", ")", ";", " ", "}">>,
    <<":", "r", "o", "o", "t", " ", "{", " ", "-", "-", "a", "c", "c", "e", "n", "t", ":", " ", "#", "a", "a", "b", "b", "c", "c", ";", " ", "-", "-", "y", "a", "s", "b", "-", "b", "a", "c", "k", "g", "r", "o", "u", "n", "d", ":", " ", "r", "g", "b", "a", "(", "0", ",", " ", "0", ",", " ", "0", ",", " ", "0", ".", "5", ")", ";", " ", "}">>,
    <<":", "r", "o", "o", "t", " ", "{", " ", "-", "-", "a", "c", "c", "e", "n", "t", ":", " ", "#", "a", "a", "b", "b", "c", "c", ";", " ", "-", "-", "a", "c", "c", "e", "n", "t", "-", "r", "g", "b", ":", " ", "1", ",", " ", "2", ",", " ", "3", ";", " ", "}">> }

MainConfigFiles == {
    <<"'", "c", "o", "l", "o", "r", "'", ":", " ", "'", "#", "a", "a", "b", "b", "c", "c", "'", "\n", "'", "c", "o", "l", "o", "r", "'", ":", " ", "'", "#", "D", "D", "E", "E", "F", "F", "'", "\n">>,
    <<"'", "s", "i", "z", "e", "'", ":", " ", "1", "4", "\n">> }

Init ==
    /\ pc = "ensure_paths"
    /\ exit_code = -1
    /\ error = NoError
    /\ present \in SUBSET {"styles.css", "config.yaml"}
    /\ wallpaper \in {"api_error", "missing", "ok"}
    /\ runner_found \in BOOLEAN
    /\ pywal_installed \in BOOLEAN
    /\ colors_json \in {NoFile, Artifact("prior run", "json", PriorPalette)}
    /\ backend_idx = 1
    /\ errors = <<>>
    /\ invoked = <<>>
    /\ palette = EmptyDict
    /\ env_slot \in {"", "color1"}
    /\ colors = EmptyDict
    /\ special = EmptyDict
    /\ background_rgb = NoRgb
    /\ accent_hex = None
    /\ css_file \in MainCssFiles
    /\ config_file \in MainConfigFiles
    /\ css_start = css_file
    /\ config_start = config_file
    /\ css_first = <<>>
    /\ css_calls = <<>>
    /\ config_calls = <<>>

\* ensure_paths()
EnsurePaths ==
    /\ pc = "ensure_paths"
    /\ IF present # {"styles.css", "config.yaml"}
       THEN Fail(PaletteError("Missing expected YASB files", "ensure_paths"))
       ELSE pc' = "get_wallpaper" /\ UNCHANGED <<exit_code, error>>
    /\ UNCHANGED <<EnvVars, WalVars, PaletteVars, accent_hex, CssVars, ConfigVars, StartVars>>

\* wallpaper = get_wallpaper_path()
GetWallpaper ==
    /\ pc = "get_wallpaper"
    /\ IF wallpaper = "api_error"
       THEN Fail(PaletteError("Unable to read current wallpaper path from Windows.", "get_wallpaper"))
       ELSE IF wallpaper = "missing"
       THEN Fail(PaletteError("Wallpaper path does not exist", "get_wallpaper"))
       ELSE pc' = "wal_runner" /\ UNCHANGED <<exit_code, error>>
    /\ UNCHANGED <<EnvVars, WalVars, PaletteVars, accent_hex, CssVars, ConfigVars, StartVars>>

\* generate_palette: runner, runner_name, env = _wal_runner()
WalRunner ==
    /\ pc = "wal_runner"
    /\ IF runner_found
       THEN pc' = "wal_cache_dir" /\ UNCHANGED <<exit_code, error>>
       ELSE Fail(PaletteError("Unable to locate 'wal' or a Python launcher to invoke pywal.",
                              "generate_palette"))
    /\ UNCHANGED <<EnvVars, WalVars, PaletteVars, accent_hex, CssVars, ConfigVars, StartVars>>

\* generate_palette: cache_dir = _wal_cache_dir()
WalCacheDir ==
    /\ pc = "wal_cache_dir"
    /\ IF pywal_installed
       THEN pc' = "invoke_backend" /\ UNCHANGED <<exit_code, error>>
       ELSE Fail(PaletteError("pywal is not installed.",
                              "generate_palette"))
    /\ UNCHANGED <<EnvVars, WalVars, PaletteVars, accent_hex, CssVars, ConfigVars, StartVars>>

\* one iteration of generate_palette's loop: invoke_backend(backend), with the
\* outcome of the unlink, the exit code of wal and what wal left in colors.json
InvokeBackend ==
    /\ pc = "invoke_backend"
    /\ backend_idx <= Len(Backends)
    /\ \E unlink_ok \in BOOLEAN, returncode \in {0, 1} :
       \E written \in {NoFile} \cup (IF returncode = 0
                                     THEN WrittenOnSuccess(Backends[backend_idx])
                                     ELSE WrittenOnFailure(Backends[backend_idx])) :
         LET backend == Backends[backend_idx]
             after_unlink == IF colors_json.exists /\ unlink_ok THEN NoFile ELSE colors_json
             after_run == IF written = NoFile THEN after_unlink ELSE written
             loaded == _load_palette_json(after_run)
             failure == IF returncode # 0 THEN "failed with exit code"
                        ELSE IF ~after_run.exists THEN "did not produce colors.json"
                        ELSE IF loaded.raised # "" THEN "produced invalid palette data"
                        ELSE ""
         IN  /\ colors_json' = after_run
             /\ invoked' = Append(invoked, [backend |-> backend,
                                            returncode |-> returncode,
                                            artifact_present |-> after_run.exists,
                                            parsed |-> after_run.exists /\ loaded.raised = ""])
             /\ IF failure = ""
                THEN /\ palette' = loaded.data
                     /\ pc' = "extract"
                     /\ UNCHANGED <<backend_idx, errors>>
                ELSE /\ errors' = Append(errors, [backend |-> backend, reason |-> failure])
                     /\ backend_idx' = backend_idx + 1
                     /\ UNCHANGED <<palette, pc>>
    /\ UNCHANGED <<exit_code, error, EnvVars, PaletteVars, accent_hex, CssVars, ConfigVars, StartVars>>

\* after the loop: raise PaletteError("pywal was unable ..." + " | ".join(errors))
AllBackendsFailed ==
    /\ pc = "invoke_backend"
    /\ backend_idx > Len(Backends)
    /\ Fail([msg |-> "pywal was unable to generate a palette.",
             raised_in |-> "generate_palette",
             parts |-> errors])
    /\ UNCHANGED <<EnvVars, WalVars, PaletteVars, accent_hex, CssVars, ConfigVars, StartVars>>

\* main, lines 327-335: colors, special, background_rgb
Extract ==
    /\ pc = "extract"
    /\ LET cols == IF "colors" \in DOMAIN palette THEN palette["colors"] ELSE EmptyDict
           spec == IF "special" \in DOMAIN palette THEN palette["special"] ELSE EmptyDict
           background_hex == Get(spec, "background")
       IN  /\ colors' = cols
           /\ special' = spec
           /\ IF DOMAIN cols = {}
              THEN Fail(PaletteError("Palette colors collection empty.", "main"))
                   /\ UNCHANGED background_rgb
              ELSE IF background_hex = None
              THEN Fail(PaletteError("Could not determine background color from wal palette.", "main"))
                   /\ UNCHANGED background_rgb
              ELSE IF hex_to_rgb(background_hex).raised
              THEN Fail(PaletteError("Unexpected color format", "hex_to_rgb"))
                   /\ UNCHANGED background_rgb
              ELSE /\ background_rgb' = hex_to_rgb(background_hex).rgb
                   /\ pc' = "choose_accent"
                   /\ UNCHANGED <<exit_code, error>>
    /\ UNCHANGED <<EnvVars, WalVars, accent_hex, CssVars, ConfigVars, StartVars>>

\* update_css(accent_hex.lower(), background_rgb)
UpdateCss ==
    /\ pc = "update_css"
    /\ ApplyCss(Lower(accent_hex))
    /\ LET r == update_css(css_file, Lower(accent_hex), background_rgb) IN
       IF r.raised # ""
       THEN Fail(PaletteError(r.raised, "update_css"))
       ELSE pc' = "update_config" /\ UNCHANGED <<exit_code, error>>
    /\ UNCHANGED <<EnvVars, WalVars, PaletteVars, accent_hex, ConfigVars, StartVars>>

\* update_config(accent_hex.lower()); return 0
UpdateConfig ==
    /\ pc = "update_config"
    /\ ApplyConfig(Lower(accent_hex))
    /\ LET r == update_config(config_file, Lower(accent_hex)) IN
       IF r.raised # ""
       THEN Fail(PaletteError(r.raised, "update_config"))
       ELSE pc' = "done" /\ exit_code' = 0 /\ UNCHANGED error
    /\ UNCHANGED <<EnvVars, WalVars, PaletteVars, accent_hex, CssVars, StartVars>>

Next ==
    \/ EnsurePaths
    \/ GetWallpaper
    \/ WalRunner
    \/ WalCacheDir
    \/ InvokeBackend
    \/ AllBackendsFailed
    \/ Extract
    \/ ChooseAccent
    \/ UpdateCss
    \/ UpdateConfig

Spec == Init /\ [][Next]_vars

----------------------------------------------------------------------------
(* Properties of the run (checked under Spec) *)

Finished == pc = "done"

NoSuccessfulCall(calls) == \A i \in 1..Len(calls) : calls[i] # ""

\* C1: a finished run has either rewritten both styles.css and config.yaml
\* with the new accent, or changed neither of them.
C1_NoPartialSuccess ==
    Finished =>
        \/ css_calls = <<"">> /\ config_calls = <<"">>
        \/ /\ NoSuccessfulCall(css_calls)
           /\ NoSuccessfulCall(config_calls)
           /\ css_file = css_start
           /\ config_file = config_start

StatedBackends == <<"colorthief", "wal", "haishoku">>

\* exit code 0, artifact present, artifact parses
AttemptSucceeded(attempt) ==
    attempt.returncode = 0 /\ attempt.artifact_present /\ attempt.parsed

\* generate_palette has returned a palette to main
PaletteReturned ==
    \/ pc \in {"extract", "choose_accent", "update_css", "update_config"}
    \/ Finished /\ error.raised_in \notin {"ensure_paths", "get_wallpaper", "generate_palette"}

\* the errors _wal_runner and _wal_cache_dir raise, before the loop over the backends
ResolutionErrors ==
    {"Unable to locate 'wal' or a Python launcher to invoke pywal.", "pywal is not installed."}

\* C2 as stated: generate_palette raises PaletteError only after all three
\* backends have been invoked and failed, one message per backend.
C2_RaisesOnlyAfterAllBackends ==
    error.raised_in = "generate_palette" =>
        /\ Len(invoked) = 3
        /\ Len(error.parts) = 3

\* C2 amended: the backends are invoked in the order colorthief, wal, haishoku;
\* the first attempt that succeeds ends the loop and its palette is returned;
\* once the wal command and the cache directory are resolved, PaletteError is
\* raised only after all three were invoked and failed, with one message per
\* backend; a failed resolution raises it before any backend is invoked.
C2_FirstSuccessWins ==
    /\ Len(invoked) <= 3
    /\ \A i \in 1..Len(invoked) :
          /\ invoked[i].backend = StatedBackends[i]
          /\ AttemptSucceeded(invoked[i]) =>
                /\ i = Len(invoked)
                /\ PaletteReturned
                /\ palette = colors_json.data
    /\ PaletteReturned =>
          /\ invoked # <<>>
          /\ AttemptSucceeded(invoked[Len(invoked)])
          /\ Len(errors) = Len(invoked) - 1
    /\ error.raised_in = "generate_palette" =>
          IF error.msg \in ResolutionErrors
          THEN invoked = <<>>
          ELSE /\ Len(invoked) = 3
               /\ \A i \in 1..3 : ~AttemptSucceeded(invoked[i])
               /\ Len(error.parts) = 3
               /\ \A i \in 1..3 : error.parts[i].backend = StatedBackends[i]

\* colorthief failed, wal succeeded, haishoku was never invoked
C2_Witness ==
    /\ PaletteReturned
    /\ Len(invoked) = 2
    /\ ~AttemptSucceeded(invoked[1])
    /\ invoked[2].backend = "wal"
    /\ AttemptSucceeded(invoked[2])

\* C9: when update_css fails on any of its three patterns, update_config is
\* not run, both files keep their contents and the run exits with status 1.
C9_CssFailureAborts ==
    (css_calls # <<>> /\ css_calls[1] # "") =>
        /\ Finished
        /\ exit_code = 1
        /\ error.raised_in = "update_css"
        /\ config_calls = <<>>
        /\ css_file = css_start
        /\ config_file = config_start

\* the first two patterns matched and the third did not
C9_Witness ==
    /\ Finished
    /\ css_calls = <<"Failed to apply CSS replacement: --yasb-background">>
    /\ \E i \in 1..Len(css_start) : AccentMatchEnd(css_start, i) # 0
    /\ \E i \in 1..Len(css_start) : AccentRgbMatchEnd(css_start, i) # 0
    /\ \E i \in 1..Len(config_start) : ColorEntryMatchEnd(config_start, i) # 0
    /\ exit_code = 1

\* C10: the palette generate_palette returns was written by the backend
\* invocation that is reported as successful.
C10_PaletteIsFresh ==
    PaletteReturned =>
        /\ colors_json.exists
        /\ colors_json.writer = invoked[Len(invoked)].backend

====
